---- MODULE Spec2Model ----
(***************************************************************************)
(* Model of packages/content/src/raw/index.ts (class API): the recursive   *)
(* path mutation putPath/deletePath over a content-addressed block store,  *)
(* the retrieval get, and the root lifecycle initRoot/resolveRoot/commit.  *)
(*                                                                         *)
(* Strings (paths, path segments, object keys) are sequences of one-       *)
(* character strings, so that split, join and replace act on characters    *)
(* as the JavaScript string methods do.                                    *)
(*                                                                         *)
(* An IPLD value is a record [t, v]: t is the kind ("obj", "arr",          *)
(* "scalar", "link", "null", "undefined", or an error kind) and v the      *)
(* payload.  A CID is the hash of the encoded block; it is modelled by the *)
(* block's value itself, Link(b), so two blocks have the same CID exactly  *)
(* when they have the same content.  The block store is the set of blocks  *)
(* it holds.                                                               *)
(***************************************************************************)
EXTENDS Integers, Sequences, FiniteSets, TLC

(***************************************************************************)
(* Bounds of the model.                                                    *)
(***************************************************************************)
\* longest path, in segments, a caller passes to putPath/deletePath
MaxPathLen == 3
\* number of commit/initRoot calls in one behaviour
MaxCommits == 1
\* number of commits in one behaviour of the root lifecycle on its own
MaxRootCommits == 2
\* number of putPath chains in one behaviour of interleaved chains
MaxChains == 3

(***************************************************************************)
(* JavaScript strings                                                      *)
(***************************************************************************)
\* String.prototype.split("/")
RECURSIVE Split(_)
Split(s) ==
  IF \A i \in 1..Len(s) : s[i] # "/"
  THEN <<s>>
  ELSE LET i == CHOOSE i \in 1..Len(s) :
                  s[i] = "/" /\ \A j \in 1..(i-1) : s[j] # "/"
       IN  <<SubSeq(s, 1, i-1)>> \o Split(SubSeq(s, i+1, Len(s)))

\* Array.prototype.join("/")
RECURSIVE Join(_)
Join(segs) ==
  IF Len(segs) = 0 THEN <<>>
  ELSE IF Len(segs) = 1 THEN segs[1]
  ELSE segs[1] \o <<"/">> \o Join(Tail(segs))

\* pat occurs in s at position i
OccursAt(s, pat, i) ==
  /\ i + Len(pat) - 1 <= Len(s)
  /\ SubSeq(s, i, i + Len(pat) - 1) = pat

\* String.prototype.replace(pat, ""): only the FIRST occurrence is removed
Replace(s, pat) ==
  IF \E i \in 1..Len(s) : OccursAt(s, pat, i)
  THEN LET i == CHOOSE i \in 1..Len(s) :
                  OccursAt(s, pat, i) /\ \A j \in 1..(i-1) : ~OccursAt(s, pat, j)
       IN  SubSeq(s, 1, i-1) \o SubSeq(s, i + Len(pat), Len(s))
  ELSE s

\* parts.filter(Boolean): drop the empty segments
RECURSIVE FilterBoolean(_)
FilterBoolean(segs) ==
  IF segs = <<>> THEN <<>>
  ELSE IF Head(segs) = <<>> THEN FilterBoolean(Tail(segs))
  ELSE <<Head(segs)>> \o FilterBoolean(Tail(segs))

(***************************************************************************)
(* IPLD values                                                             *)
(***************************************************************************)
Scalar(c)  == [t |-> "scalar", v |-> c]
Obj(f)     == [t |-> "obj", v |-> f]
Arr(s)     == [t |-> "arr", v |-> s]
Link(b)    == [t |-> "link", v |-> b]
Null       == [t |-> "null", v |-> ""]
Undefined  == [t |-> "undefined", v |-> ""]
\* a thrown TypeError, as the outcome of an expression
TypeErr    == [t |-> "TypeError", v |-> ""]
\* a rejected block-store call (unknown key, block not held, bad CID text)
StoreErr   == [t |-> "StoreError", v |-> ""]

IsErr(x) == x.t \in {"TypeError", "StoreError"}

\* the scalars JavaScript treats as false: 0, false, ""
FalsyScalars == {"0", "false", ""}

\* JavaScript truthiness, as in `filter((v) => v)` and `newValue && ...`
Truthy(x) ==
  CASE x.t = "scalar" -> x.v \notin FalsyScalars
    [] x.t \in {"null", "undefined"} -> FALSE
    [] OTHER -> TRUE

\* `data == null`
IsNullish(x) == x.t \in {"null", "undefined"}

\* the array index a property key denotes, or -1
IndexOf(key) ==
  CASE key = <<"0">> -> 0
    [] key = <<"1">> -> 1
    [] key = <<"2">> -> 2
    [] key = <<"3">> -> 3
    [] OTHER -> -1

\* Array.prototype.filter((v) => v)
RECURSIVE FilterTruthy(_)
FilterTruthy(s) ==
  IF s = <<>> THEN <<>>
  ELSE IF Truthy(Head(s)) THEN <<Head(s)>> \o FilterTruthy(Tail(s))
  ELSE FilterTruthy(Tail(s))

\* node[key], read
GetField(node, key) ==
  CASE node.t = "obj" ->
         IF key \in DOMAIN node.v THEN node.v[key] ELSE Undefined
    [] node.t = "arr" ->
         IF IndexOf(key) >= 0 /\ IndexOf(key) < Len(node.v)
         THEN node.v[IndexOf(key) + 1] ELSE Undefined
    [] node.t \in {"null", "undefined"} -> TypeErr
    [] OTHER -> Undefined

\* Object.prototype.hasOwnProperty.call(node, key)
HasOwn(node, key) ==
  CASE node.t = "obj" -> key \in DOMAIN node.v
    [] node.t = "arr" ->
         /\ IndexOf(key) >= 0 /\ IndexOf(key) < Len(node.v)
         /\ node.v[IndexOf(key) + 1] # Undefined
    [] OTHER -> FALSE

\* node[key] = val   (strict mode: a primitive receiver throws)
AssignField(node, key, val) ==
  CASE node.t = "obj" ->
         Obj([k \in (DOMAIN node.v) \cup {key} |->
                IF k = key THEN val ELSE node.v[k]])
    [] node.t = "arr" ->
         IF IndexOf(key) < 0 THEN node
         ELSE LET n == IF IndexOf(key) + 1 > Len(node.v)
                       THEN IndexOf(key) + 1 ELSE Len(node.v)
              IN  Arr([i \in 1..n |->
                        IF i = IndexOf(key) + 1 THEN val
                        ELSE IF i <= Len(node.v) THEN node.v[i]
                        ELSE Undefined])
    [] node.t = "link" -> node
    [] OTHER -> TypeErr

\* delete node[key]   (an array keeps its length: the slot becomes a hole)
DeleteField(node, key) ==
  CASE node.t = "obj" ->
         Obj([k \in (DOMAIN node.v) \ {key} |-> node.v[k]])
    [] node.t = "arr" ->
         IF IndexOf(key) >= 0 /\ IndexOf(key) < Len(node.v)
         THEN Arr([i \in 1..Len(node.v) |->
                    IF i = IndexOf(key) + 1 THEN Undefined ELSE node.v[i]])
         ELSE node
    [] node.t \in {"null", "undefined"} -> TypeErr
    [] OTHER -> node

\* if (data == null) delete node[key] else node[key] = data
SetField(node, key, data) ==
  IF IsNullish(data) THEN DeleteField(node, key)
  ELSE AssignField(node, key, data)

\* function putInnerPath(node, path, data): the node after the in-place edit
RECURSIVE putInnerPath(_, _, _)
putInnerPath(node, path, data) ==
  LET pathSegments == Split(path) IN
  IF Len(pathSegments) = 2 /\ pathSegments[2] = <<>> THEN node
  ELSE IF Len(pathSegments) = 1 THEN SetField(node, pathSegments[1], data)
  ELSE IF Len(pathSegments) = 2 THEN SetField(node, pathSegments[2], data)
  ELSE LET child == GetField(node, pathSegments[2])
           inner == IF IsErr(child) THEN child
                    ELSE putInnerPath(child,
                           Join(SubSeq(pathSegments, 3, Len(pathSegments))),
                           data)
       IN  IF IsErr(inner) THEN inner
           ELSE AssignField(node, pathSegments[2], inner)

(***************************************************************************)
(* Schema transform service (@ipld/schema typed.js over the @geo-web/types *)
(* schema).  Two schemas stand for the two shapes the parcel schema uses:  *)
(* a map whose fields are all links, and a map whose fields are all        *)
(* scalars.  toRepresentation returns the value when it conforms and       *)
(* undefined when it does not.                                             *)
(***************************************************************************)
NoSchema == ""
SchemaNames == {"LinkMap", "ScalarMap"}

Conforms(schemaName, x) ==
  CASE schemaName = "LinkMap" ->
         x.t = "obj" /\ \A k \in DOMAIN x.v : x.v[k].t = "link"
    [] schemaName = "ScalarMap" ->
         x.t = "obj" /\ \A k \in DOMAIN x.v : x.v[k].t = "scalar"
    [] OTHER -> FALSE

toRepresentation(schemaName, x) ==
  IF Conforms(schemaName, x) THEN x ELSE Undefined

(***************************************************************************)
(* Block store (ipfs.dag): blocks is the set of blocks the store holds     *)
(***************************************************************************)
\* dag-cbor refuses to encode undefined, also as the hole of a sparse array
RECURSIVE Encodable(_)
Encodable(x) ==
  CASE x.t = "obj" -> \A k \in DOMAIN x.v : Encodable(x.v[k])
    [] x.t = "arr" -> \A i \in 1..Len(x.v) : Encodable(x.v[i])
    [] x.t = "undefined" -> FALSE
    [] OTHER -> TRUE

\* a put that drops what the store held
DagPutOverwrite(blocks, x) == {x}

\* ipfs.dag.put(x): the store afterwards; the returned CID is Link(x)
DagPut(blocks, x) == blocks \cup {x}

\* ipfs.dag.get(cid): the decoded block
DagGet(blocks, cid) == IF cid.v \in blocks THEN cid.v ELSE StoreErr

Resolved(c, rem) == [t |-> "resolved", v |-> [cid |-> c, remainderPath |-> rem]]

\* The walk of ipfs.dag.resolve: follow the path while the value met is a
\* link; stop at the first value that is not a link.  The result is the last
\* link crossed and the path that remains inside its block.
RECURSIVE ResolveWalk(_, _, _, _, _)
ResolveWalk(blocks, node, parts, lastCid, lastRemainderPath) ==
  IF parts = <<>> THEN Resolved(lastCid, lastRemainderPath)
  ELSE IF ~HasOwn(node, Head(parts)) THEN StoreErr
  ELSE LET x == GetField(node, Head(parts)) IN
       IF x.t # "link" THEN Resolved(lastCid, lastRemainderPath)
       ELSE IF x.v \notin blocks THEN StoreErr
       ELSE ResolveWalk(blocks, x.v, Tail(parts), x, Join(Tail(parts)))

\* ipfs.dag.resolve(`/ipfs/${root}${parentPath}`).  The path is appended to
\* the text of the CID: unless it is empty or starts with "/", the text is
\* no CID and the call is rejected.
DagResolve(blocks, rootCid, ipfsPath) ==
  IF ipfsPath = <<>> THEN Resolved(rootCid, <<>>)
  ELSE IF Head(ipfsPath) # "/" THEN StoreErr
  ELSE IF rootCid.v \notin blocks THEN StoreErr
  ELSE ResolveWalk(blocks, rootCid.v, FilterBoolean(Split(ipfsPath)),
                   rootCid, Join(FilterBoolean(Split(ipfsPath))))

\* The walk of ipfs.dag.get(root, {path}): every segment is followed,
\* through links and inside blocks, to the value at the end of the path.
RECURSIVE GetWalk(_, _, _)
GetWalk(blocks, node, parts) ==
  IF parts = <<>> THEN node
  ELSE IF ~HasOwn(node, Head(parts)) THEN StoreErr
  ELSE LET x == GetField(node, Head(parts)) IN
       IF x.t = "link"
       THEN IF x.v \in blocks THEN GetWalk(blocks, x.v, Tail(parts))
            ELSE StoreErr
       ELSE GetWalk(blocks, x, Tail(parts))

DagGetPath(blocks, rootCid, p) ==
  IF rootCid.v \notin blocks THEN StoreErr
  ELSE GetWalk(blocks, rootCid.v, FilterBoolean(Split(p)))

(***************************************************************************)
(* Inputs of the model                                                     *)
(***************************************************************************)
SegNames == {<<"a">>, <<"b">>, <<"1">>}

\* "/s1/.../sn" for the segment sequence <<s1, ..., sn>>
RECURSIVE PathOf(_)
PathOf(segs) ==
  IF segs = <<>> THEN <<>> ELSE <<"/">> \o Head(segs) \o PathOf(Tail(segs))

SegSeqs == UNION {[1..n -> SegNames] : n \in 1..MaxPathLen}
Paths == {PathOf(segs) : segs \in SegSeqs}

Field1(k, x) == Obj([i \in {k} |-> x])
Field2(k1, x1, k2, x2) == Obj([i \in {k1, k2} |-> IF i = k1 THEN x1 ELSE x2])
Field3(k1, x1, k2, x2, k3, x3) ==
  Obj([i \in {k1, k2, k3} |-> IF i = k1 THEN x1 ELSE IF i = k2 THEN x2 ELSE x3])

\* A tree whose every level is a block of its own: /a/a/a, /a/b/a, ...
LeafB      == Field1(<<"a">>, Scalar("x"))
NodeA      == Field2(<<"a">>, Link(LeafB), <<"b">>, Link(LeafB))
RootLinked == Field2(<<"a">>, Link(NodeA), <<"b">>, Link(NodeA))

\* A tree with sequences and with containers stored inline in their parent
ArrXYZ     == Arr(<<Scalar("x"), Scalar("y"), Scalar("z")>>)
Arr0XY     == Arr(<<Scalar("0"), Scalar("x"), Scalar("y")>>)
InlineAA   == Field1(<<"a">>, Field1(<<"a">>, Scalar("x")))
NodeM      == Field3(<<"a">>, Link(Arr0XY), <<"b">>, ArrXYZ, <<"1">>, InlineAA)
RootMixed  == Field3(<<"a">>, Link(ArrXYZ), <<"b">>, Link(NodeM), <<"1">>, InlineAA)

InitBlocks == {LeafB, NodeA, RootLinked, ArrXYZ, Arr0XY, NodeM, RootMixed}
Roots == {Link(RootLinked), Link(RootMixed)}

\* the values a caller writes: null (deletePath), a scalar, the scalar 0,
\* an object
Datas == {Null, Scalar("z"), Scalar("0"), Field1(<<"a">>, Scalar("x"))}

OptsSet == [leafSchema : {NoSchema, "ScalarMap"},
            parentSchema : {NoSchema, "LinkMap"},
            pin : BOOLEAN]

\* the owner identities of the pointer service and the parcel ids
Owners == {"0xABC", "0xabc"}
ParcelIds == {1}
\* content["/"] of a document that was never updated
NoContent == [t |-> "undefined", v |-> ""]

\* blocks only the remote gateway holds
LeafRemote == Field1(<<"a">>, Scalar("y"))
RootRemote == Field1(<<"a">>, Link(LeafRemote))
GatewayBlocks == InitBlocks \cup {LeafRemote, RootRemote}

(***************************************************************************)
(* State                                                                   *)
(***************************************************************************)
VARIABLES
  ipfs,                \* #ipfs: the blocks the local block store holds
  ceramic,             \* #ceramic: content["/"] of each owner's document
  w3InvocationConfig,  \* #w3InvocationConfig is configured
  ipfsGatewayHost,     \* #ipfsGatewayHost is configured
  pending,             \* blocks of block.put calls that were not awaited
  gpc,                 \* position of the get call
  getArgs,             \* arguments of the get call
  got,                 \* the value get returned
  uploaded,            \* the archives uploadCAR has accepted, in order
  commits,             \* number of commits made
  committed,           \* the root last committed for each (owner, id)
  updates,             \* number of commits made for each (owner, id)
  rpc,                 \* position of the resolveRoot call
  rrArgs,              \* arguments of the resolveRoot call
  doc,                 \* content["/"] of the document resolveRoot has loaded
  resolved,            \* the CID resolveRoot returned
  rrSince,             \* `updates` when resolveRoot was called
  others,              \* the putPath chains suspended at an await
  pc,                  \* position of the putPath chain
  call,                \* arguments of the caller's putPath/deletePath call
  level,               \* recursion level of the running putPath (1 = caller's)
  root, path, data, opts,                \* arguments of the running level
  newData, lastPathSegment, parentPath,  \* locals of the running level
  cid, remainderPath, value, newValue, innerBlocks, newCid,
  result,              \* the CID the chain returned
  thrown,              \* the error the chain raised
  ipfs0,               \* the block store when the caller's call was made
  ceramic0,            \* the pointer service when the caller's call was made
  puts                 \* the dag.put calls of the chain, in order

store   == <<ipfs, uploaded>>
pointer == <<ceramic, commits, committed, updates>>
resolver == <<rpc, rrArgs, doc, resolved, rrSince>>
config  == <<w3InvocationConfig, ipfsGatewayHost>>
getter  == <<gpc, getArgs, got, pending>>
args    == <<root, path, data, opts, level>>
locals  == <<newData, lastPathSegment, parentPath, cid, remainderPath, value,
             newValue, innerBlocks, newCid>>
outcome == <<result, thrown>>
history == <<call, ipfs0, ceramic0, puts>>
vars    == <<store, pointer, config, getter, resolver, others, pc, args,
             locals, outcome, history>>

None == [t |-> "none", v |-> ""]
NoOpts == [leafSchema |-> NoSchema, parentSchema |-> NoSchema, pin |-> FALSE]

Init ==
  /\ ipfs = InitBlocks
  /\ ceramic = [d \in Owners \X ParcelIds |-> NoContent]
  /\ w3InvocationConfig \in BOOLEAN
  /\ ipfsGatewayHost \in BOOLEAN
  /\ pending = {}
  /\ gpc = "idle"
  /\ getArgs = [root |-> None, path |-> <<>>, schema |-> NoSchema]
  /\ got = None
  /\ uploaded = <<>>
  /\ commits = 0
  /\ committed = [d \in Owners \X ParcelIds |-> None]
  /\ updates = [d \in Owners \X ParcelIds |-> 0]
  /\ rpc = "idle"
  /\ rrArgs = [ownerDID |-> "", parcelId |-> 0]
  /\ doc = NoContent
  /\ resolved = None
  /\ rrSince = updates
  /\ others = <<>>
  /\ pc = "idle"
  /\ call = [root |-> None, path |-> <<>>, data |-> None, opts |-> NoOpts]
  /\ level = 0
  /\ root = None /\ path = <<>> /\ data = None /\ opts = NoOpts
  /\ newData = None /\ lastPathSegment = <<>> /\ parentPath = <<>>
  /\ cid = None /\ remainderPath = <<>> /\ value = None /\ newValue = None
  /\ innerBlocks = <<>> /\ newCid = None
  /\ result = None /\ thrown = ""
  /\ ipfs0 = {} /\ ceramic0 = ceramic /\ puts = <<>>

(***************************************************************************)
(* putPath                                                                 *)
(***************************************************************************)
\* an error that is logged and not re-raised: the root it was given is returned
ThrowSwallowed(kind) ==
  /\ pc' = "failed"
  /\ thrown' = kind
  /\ result' = root

\* throw: the chain ends, the error reaches the caller
Throw(kind) ==
  /\ pc' = "failed"
  /\ thrown' = kind
  /\ result' = result

\* a transform failure that goes unnoticed
LeafSchemaUnchecked(o, nd) == FALSE

\* line 181: the typed -> representation transform failed
LeafSchemaInvalid(o, nd) == o.leafSchema # NoSchema /\ nd = Undefined

\* lines 177-189: entry of putPath up to the first await
Enter(r, p, d, o, lvl) ==
  LET nd == IF o.leafSchema # NoSchema
            THEN toRepresentation(o.leafSchema, d) ELSE d
      pathSegments == Split(p)
      last == pathSegments[Len(pathSegments)]
  IN  /\ root' = r /\ path' = p /\ data' = d /\ opts' = o /\ level' = lvl
      /\ newData' = nd
      /\ cid' = None /\ remainderPath' = <<>> /\ value' = None
      /\ newValue' = None /\ innerBlocks' = <<>> /\ newCid' = None
      /\ IF LeafSchemaInvalid(o, nd)
         THEN /\ Throw("leafSchema")
              /\ lastPathSegment' = <<>> /\ parentPath' = <<>>
         ELSE /\ lastPathSegment' = last
              /\ parentPath' = Replace(p, <<"/">> \o last)
              /\ pc' = "resolve"
              /\ UNCHANGED outcome

\* putPath(root, path, data, opts) and deletePath(root, path, opts), which
\* is putPath(root, path, null, opts)
PutPathCall ==
  /\ pc = "idle"
  /\ gpc = "idle"
  /\ \E r \in Roots, p \in Paths, d \in Datas, o \in OptsSet :
       /\ Enter(r, p, d, o, 1)
       /\ call' = [root |-> r, path |-> p, data |-> d, opts |-> o]
  /\ ipfs0' = ipfs
  /\ ceramic0' = ceramic
  /\ puts' = <<>>
  /\ UNCHANGED <<store, pointer, config, resolver, others, getter>>

\* lines 190-192: await ipfs.dag.resolve
ResolveStep ==
  /\ pc = "resolve"
  /\ LET r == DagResolve(ipfs, root, parentPath) IN
       IF IsErr(r)
       THEN /\ Throw("store")
            /\ UNCHANGED <<cid, remainderPath>>
       ELSE /\ cid' = r.v.cid
            /\ remainderPath' = r.v.remainderPath
            /\ pc' = "get"
            /\ UNCHANGED outcome
  /\ UNCHANGED <<store, pointer, config, resolver, others, getter, args, history, newData,
                 lastPathSegment, parentPath, value, newValue, innerBlocks,
                 newCid>>

\* the path handed to putInnerPath: `/${lastPathSegment}` (line 234) or
\* nestedPath = `/${remainderPath}/${lastPathSegment}` (line 264)
EditPath(rem, last) ==
  IF rem = <<>> THEN <<"/">> \o last
  ELSE <<"/">> \o rem \o <<"/">> \o last

\* lines 236-238, 267-269: filter undefined from arrays
FilterArray(x) == IF x.t = "arr" THEN Arr(FilterTruthy(x.v)) ELSE x

\* lines 242, 273: the edited node does not match parentSchema
NeedsLink(nv, representation) == Truthy(nv) /\ representation = Undefined

\* a second validation whose failure goes unnoticed
StillInvalidUnchecked(representation) == FALSE

\* lines 255, 286: the node with the link does not match either
StillInvalid(representation) == representation = Undefined

\* line 294: parentPath = parentPath.replace(remainderPath, "")
ConsumeRemainder(pp, rem) == IF rem = <<>> THEN pp ELSE Replace(pp, rem)

\* lines 193-242 / 262-273: await ipfs.dag.get(cid), edit, filter, validate
GetStep ==
  /\ pc = "get"
  /\ LET blk == DagGet(ipfs, cid)
         edited == IF IsErr(blk) THEN blk
                   ELSE putInnerPath(blk, EditPath(remainderPath, lastPathSegment), newData)
         nv == IF IsErr(edited) THEN edited ELSE FilterArray(edited)
     IN  IF IsErr(blk)
         THEN /\ Throw("store")
              /\ UNCHANGED <<value, newValue, parentPath>>
         ELSE IF IsErr(edited)
         THEN /\ Throw("TypeError")
              /\ value' = blk
              /\ UNCHANGED <<newValue, parentPath>>
         ELSE /\ value' = edited
              /\ newValue' = nv
              /\ UNCHANGED outcome
              /\ IF /\ opts.parentSchema # NoSchema
                    /\ NeedsLink(nv, toRepresentation(opts.parentSchema, nv))
                 THEN /\ pc' = "putLeaf"
                      /\ UNCHANGED parentPath
                 ELSE /\ pc' = "put"
                      /\ parentPath' = ConsumeRemainder(parentPath, remainderPath)
  /\ UNCHANGED <<store, pointer, config, resolver, others, getter, args, history, newData,
                 lastPathSegment, cid, remainderPath, innerBlocks, newCid>>

\* lines 244-259 / 275-290: try again with a link
PutLeafStep ==
  /\ pc = "putLeaf"
  /\ IF ~Encodable(newData)
     THEN /\ Throw("store")
          /\ UNCHANGED <<store, puts, innerBlocks, newValue, parentPath>>
     ELSE LET newDataLink == Link(newData)
              nv == putInnerPath(value, EditPath(remainderPath, lastPathSegment),
                                 newDataLink)
          IN  /\ ipfs' = DagPut(ipfs, newData)
              /\ puts' = Append(puts, [level |-> level, kind |-> "leaf", block |-> newData])
              /\ innerBlocks' = Append(innerBlocks, newData)
              /\ UNCHANGED uploaded
              /\ IF IsErr(nv)
                 THEN /\ Throw("TypeError")
                      /\ UNCHANGED <<newValue, parentPath>>
                 ELSE /\ newValue' = nv
                      /\ IF StillInvalid(toRepresentation(opts.parentSchema, nv))
                         THEN /\ Throw("parentSchema")
                              /\ UNCHANGED parentPath
                         ELSE /\ pc' = "put"
                              /\ parentPath' = ConsumeRemainder(parentPath, remainderPath)
                              /\ UNCHANGED outcome
  /\ UNCHANGED <<pointer, config, resolver, others, getter, args, call, ipfs0, ceramic0, newData, lastPathSegment,
                 cid, remainderPath, value, newCid>>

\* a pin check that lets an absent configuration through
NotConfiguredUnchecked(cfg) == FALSE

\* line 302: if (!this.#w3InvocationConfig)
NotConfigured(cfg) == ~cfg

\* lines 322-328: return the new root, or replace the parent CID recursively
Finish(nc) ==
  IF parentPath = <<"/">> \/ parentPath = <<>>
  THEN /\ pc' = "done"
       /\ result' = nc
       /\ newCid' = nc
       /\ UNCHANGED <<thrown, args, newData, lastPathSegment, parentPath, cid,
                      remainderPath, value, newValue, innerBlocks>>
  ELSE Enter(root, parentPath, nc,
             [leafSchema |-> NoSchema, parentSchema |-> NoSchema,
              pin |-> opts.pin],
             level + 1)

\* lines 297-304: await ipfs.dag.put(newValue), then the pin check
PutStep ==
  /\ pc = "put"
  /\ IF ~Encodable(newValue)
     THEN /\ Throw("store")
          /\ UNCHANGED <<store, puts, args, locals>>
     ELSE /\ ipfs' = DagPut(ipfs, newValue)
          /\ puts' = Append(puts, [level |-> level, kind |-> "node", block |-> newValue])
          /\ UNCHANGED uploaded
          /\ IF opts.pin
             THEN /\ newCid' = Link(newValue)
                  /\ IF NotConfigured(w3InvocationConfig)
                     THEN Throw("config")
                     ELSE pc' = "upload" /\ UNCHANGED outcome
                  /\ UNCHANGED <<args, newData, lastPathSegment, parentPath, cid,
                                 remainderPath, value, newValue, innerBlocks>>
             ELSE Finish(Link(newValue))
  /\ UNCHANGED <<pointer, config, resolver, others, getter, call, ipfs0, ceramic0>>

\* lines 306-320: Block.encode, CAR.encode, uploadCAR; the upload service
\* accepts the archive or fails
UploadStep ==
  /\ pc = "upload"
  /\ \/ /\ uploaded' = Append(uploaded, {newValue} \cup {innerBlocks[i] : i \in 1..Len(innerBlocks)})
        /\ Finish(newCid)
     \/ /\ Throw("upload")
        /\ UNCHANGED <<uploaded, args, locals>>
  /\ UNCHANGED <<ipfs, pointer, config, resolver, others, getter, history>>

chain == <<pc, args, locals, outcome, history>>

(***************************************************************************)
(* get                                                                     *)
(***************************************************************************)
\* schemaTyped.toTyped(value)
toTyped(schemaName, x) == IF Conforms(schemaName, x) THEN x ELSE Undefined

\* lines 145-150
Typed(schemaName, x) ==
  IF schemaName # NoSchema THEN toTyped(schemaName, x) ELSE x

\* a failed retrieval that reaches the caller as an error
Rethrown == StoreErr

\* line 107: `let value`, which no branch has assigned
Unassigned == Undefined

\* get(root, path, opts).  A caller reads any path of a root it knows, or
\* reads back the path it has just written under the root putPath returned.
GetCall ==
  /\ gpc = "idle"
  /\ pc \in {"idle", "done"}
  /\ \E r \in (IF pc = "done" THEN {result} ELSE Roots \cup {Link(RootRemote)}),
        p \in (IF pc = "done" THEN {call.path} ELSE Paths),
        sch \in (IF pc = "done" THEN {NoSchema} ELSE {NoSchema, "ScalarMap"}) :
       getArgs' = [root |-> r, path |-> p, schema |-> sch]
  /\ gpc' = "local"
  /\ UNCHANGED <<store, pointer, config, resolver, others, chain, got, pending>>

\* lines 108-111 and 140-150: await ipfs.dag.get(root, {path, timeout})
GetLocal ==
  /\ gpc = "local"
  /\ LET r == DagGetPath(ipfs, getArgs.root, getArgs.path) IN
       IF ~IsErr(r)
       THEN gpc' = "done" /\ got' = Typed(getArgs.schema, r)
       ELSE IF ipfsGatewayHost
       THEN gpc' = "gateway" /\ got' = got
       ELSE gpc' = "done" /\ got' = Typed(getArgs.schema, Unassigned)
  /\ UNCHANGED <<store, pointer, config, resolver, others, chain, getArgs, pending>>

\* lines 113-139: await axios.get, await Block.decode, block.put (not
\* awaited).  The gateway answers with the block at the end of the path, or
\* the request or the decoding fails.
GetGateway ==
  /\ gpc = "gateway"
  /\ LET r == DagGetPath(GatewayBlocks, getArgs.root, getArgs.path) IN
       \/ /\ ~IsErr(r) /\ r.t \in {"obj", "arr"} /\ r \in GatewayBlocks
          /\ pending' = pending \cup {r}
          /\ got' = Typed(getArgs.schema, r)
       \/ /\ pending' = pending
          /\ got' = Typed(getArgs.schema, Unassigned)
  /\ gpc' = "done"
  /\ UNCHANGED <<store, pointer, config, resolver, others, chain, getArgs>>

\* the write of a block.put that was not awaited reaches the block store
BlockPutLands ==
  /\ \E b \in pending :
       /\ ipfs' = DagPut(ipfs, b)
       /\ pending' = pending \ {b}
  /\ UNCHANGED <<uploaded, pointer, config, resolver, others, chain, gpc, getArgs, got>>

(***************************************************************************)
(* Root lifecycle                                                          *)
(***************************************************************************)
EmptyNode == Obj([k \in {} |-> Undefined])

\* lines 358-359: json.decode(dagjson.encode(root)), the document {"/": text}
\* whose "/" holds the text of the CID
DagJson(r) == [t |-> "text", v |-> r.v]

\* line 91: CID.parse(doc.content["/"])
CidParse(x) == [t |-> "link", v |-> x.v]

\* an update that does not reach the document
CeramicUpdateLost(docs, owner, id, r) == docs

\* lines 347-359: doc.update with the root as content
CeramicUpdate(docs, owner, id, r) ==
  [docs EXCEPT ![<<owner, id>>] = DagJson(r)]

\* commit(root, {ownerDID, parcelId}): the caller commits the root putPath
\* returned
Commit ==
  /\ commits < MaxCommits
  /\ pc = "done"
  /\ \E owner \in Owners, id \in ParcelIds :
       /\ ceramic' = CeramicUpdate(ceramic, owner, id, result)
       /\ committed' = [committed EXCEPT ![<<owner, id>>] = result]
       /\ updates' = [updates EXCEPT ![<<owner, id>>] = @ + 1]
  /\ commits' = commits + 1
  /\ UNCHANGED <<store, config, resolver, others, getter, chain>>

\* initRoot({ownerDID, parcelId}), lines 52-55
InitRoot ==
  /\ commits < MaxCommits
  /\ pc = "idle"
  /\ ipfs' = DagPut(ipfs, EmptyNode)
  /\ \E owner \in Owners, id \in ParcelIds :
       /\ ceramic' = CeramicUpdate(ceramic, owner, id, Link(EmptyNode))
       /\ committed' = [committed EXCEPT ![<<owner, id>>] = Link(EmptyNode)]
       /\ updates' = [updates EXCEPT ![<<owner, id>>] = @ + 1]
  /\ commits' = commits + 1
  /\ UNCHANGED <<uploaded, config, resolver, others, getter, chain>>

\* commit(root, {ownerDID, parcelId}) of a root the caller holds
CommitKnownRoot ==
  /\ commits < MaxRootCommits
  /\ \E r \in Roots, owner \in Owners, id \in ParcelIds :
       /\ ceramic' = CeramicUpdate(ceramic, owner, id, r)
       /\ committed' = [committed EXCEPT ![<<owner, id>>] = r]
       /\ updates' = [updates EXCEPT ![<<owner, id>>] = @ + 1]
  /\ commits' = commits + 1
  /\ UNCHANGED <<store, config, resolver, others, getter, chain>>

\* an address that is left as the caller wrote it
ToLowerCaseNoop(owner) == owner

\* line 82: opts.ownerDID.toLowerCase()
ToLowerCase(owner) == IF owner = "0xABC" THEN "0xabc" ELSE owner

\* resolveRoot({ownerDID, parcelId})
ResolveRootCall ==
  /\ rpc \in {"idle", "done"}
  /\ \E owner \in Owners, id \in ParcelIds :
       rrArgs' = [ownerDID |-> owner, parcelId |-> id]
  /\ rpc' = "checksum"
  /\ doc' = NoContent
  /\ resolved' = None
  /\ rrSince' = updates
  /\ UNCHANGED <<store, pointer, config, getter, others, chain>>

\* lines 67-77 and 90-91: await TileDocument.deterministic for the owner as
\* given; its root is returned when the document has content
ResolveChecksum ==
  /\ rpc = "checksum"
  /\ LET d == ceramic[<<rrArgs.ownerDID, rrArgs.parcelId>>] IN
       /\ doc' = d
       /\ IF Truthy(d)
          THEN rpc' = "done" /\ resolved' = CidParse(d)
          ELSE rpc' = "lowercase" /\ resolved' = resolved
  /\ UNCHANGED <<store, pointer, config, getter, others, chain, rrArgs, rrSince>>

\* lines 79-91: await TileDocument.deterministic for the lower-cased owner
ResolveLowercase ==
  /\ rpc = "lowercase"
  /\ LET d == ceramic[<<ToLowerCase(rrArgs.ownerDID), rrArgs.parcelId>>] IN
       /\ doc' = d
       /\ IF Truthy(d)
          THEN rpc' = "done" /\ resolved' = CidParse(d)
          ELSE rpc' = "empty" /\ resolved' = resolved
  /\ UNCHANGED <<store, pointer, config, getter, others, chain, rrArgs, rrSince>>

\* lines 93-98: await ipfs.dag.put({}), the empty root
ResolveEmpty ==
  /\ rpc = "empty"
  /\ ipfs' = DagPut(ipfs, EmptyNode)
  /\ resolved' = Link(EmptyNode)
  /\ rpc' = "done"
  /\ UNCHANGED <<uploaded, pointer, config, getter, others, chain, rrArgs,
                 rrSince, doc>>

Next ==
  \/ PutPathCall
  \/ ResolveStep
  \/ GetStep
  \/ PutLeafStep
  \/ PutStep
  \/ UploadStep
  \/ GetCall
  \/ GetLocal
  \/ GetGateway
  \/ BlockPutLands
  \/ Commit
  \/ InitRoot

Spec == Init /\ [][Next]_vars

(***************************************************************************)
(* Several putPath chains of one process.  A chain runs from one await to  *)
(* the next; while it waits, the event loop runs another chain or the      *)
(* caller makes a further call.  root, path, data, opts and the locals of  *)
(* putPath belong to the invocation that is running.                       *)
(***************************************************************************)
\* the frame of the running chain
Frame ==
  [pc |-> pc, root |-> root, path |-> path, data |-> data, opts |-> opts,
   level |-> level, newData |-> newData, lastPathSegment |-> lastPathSegment,
   parentPath |-> parentPath, cid |-> cid, remainderPath |-> remainderPath,
   value |-> value, newValue |-> newValue, innerBlocks |-> innerBlocks,
   newCid |-> newCid, result |-> result, thrown |-> thrown, call |-> call,
   ipfs0 |-> ipfs0, ceramic0 |-> ceramic0, puts |-> puts]

\* a parentPath that the invocations share instead of a `let` of each
ResumeShared(c) ==
  /\ pc' = c.pc /\ root' = c.root /\ path' = c.path /\ data' = c.data
  /\ opts' = c.opts /\ level' = c.level
  /\ newData' = c.newData /\ lastPathSegment' = c.lastPathSegment
  /\ parentPath' = parentPath /\ cid' = c.cid
  /\ remainderPath' = c.remainderPath /\ value' = c.value
  /\ newValue' = c.newValue /\ innerBlocks' = c.innerBlocks
  /\ newCid' = c.newCid
  /\ result' = c.result /\ thrown' = c.thrown /\ call' = c.call
  /\ ipfs0' = c.ipfs0 /\ ceramic0' = c.ceramic0 /\ puts' = c.puts

\* lines 171-231: the parameters and the `const`/`let` locals of putPath are
\* those of the invocation that continues
Resume(c) ==
  /\ pc' = c.pc /\ root' = c.root /\ path' = c.path /\ data' = c.data
  /\ opts' = c.opts /\ level' = c.level
  /\ newData' = c.newData /\ lastPathSegment' = c.lastPathSegment
  /\ parentPath' = c.parentPath /\ cid' = c.cid
  /\ remainderPath' = c.remainderPath /\ value' = c.value
  /\ newValue' = c.newValue /\ innerBlocks' = c.innerBlocks
  /\ newCid' = c.newCid
  /\ result' = c.result /\ thrown' = c.thrown /\ call' = c.call
  /\ ipfs0' = c.ipfs0 /\ ceramic0' = c.ceramic0 /\ puts' = c.puts

\* the calls made when chains are interleaved: one root, two paths that
\* differ in their last segment and so share every ancestor block, no option
TwoRoot == Link(RootLinked)
TwoPaths == {PathOf(<< <<"a">>, <<"a">> >>), PathOf(<< <<"a">>, <<"b">> >>)}
TwoDatas == {Scalar("z")}

\* putPath(root, path, data): the first call, which the caller awaits, or a
\* further call made while the chains after the first wait at an await or
\* have finished
PutPathCallTwo ==
  /\ IF pc = "idle" THEN others' = others
     ELSE /\ Len(others) + 1 < MaxChains
          /\ Len(others) = 0 => pc \in {"done", "failed"}
          /\ others' = Append(others, Frame)
  /\ \E p \in TwoPaths, d \in TwoDatas :
       /\ Enter(TwoRoot, p, d, NoOpts, 1)
       /\ call' = [root |-> TwoRoot, path |-> p, data |-> d, opts |-> NoOpts]
  /\ ipfs0' = ipfs
  /\ ceramic0' = ceramic
  /\ puts' = <<>>
  /\ UNCHANGED <<store, pointer, config, getter, resolver>>

\* the running chain waits or has finished; a waiting chain continues
Switch ==
  /\ pc # "idle"
  /\ \E i \in 1..Len(others) :
       /\ others[i].pc \notin {"done", "failed"}
       /\ others' = [others EXCEPT ![i] = Frame]
       /\ Resume(others[i])
  /\ UNCHANGED <<store, pointer, config, getter, resolver>>

\* every chain of the behaviour
Chains == {Frame} \cup {others[i] : i \in 1..Len(others)}

\* commit(root, {ownerDID, parcelId}) of the root a chain returned, once the
\* caller has awaited every chain
CommitReturned ==
  /\ commits < MaxRootCommits
  /\ \A c \in Chains : c.pc \in {"done", "failed"}
  /\ \E c \in Chains :
       /\ c.pc = "done"
       /\ ceramic' = CeramicUpdate(ceramic, "0xabc", 1, c.result)
       /\ committed' = [committed EXCEPT ![<<"0xabc", 1>>] = c.result]
       /\ updates' = [updates EXCEPT ![<<"0xabc", 1>>] = @ + 1]
  /\ commits' = commits + 1
  /\ UNCHANGED <<store, config, resolver, others, getter, chain>>

NextTwo ==
  \/ PutPathCallTwo
  \/ ResolveStep
  \/ GetStep
  \/ PutStep
  \/ Switch
  \/ CommitReturned

\* neither the upload service nor the gateway is configured
InitTwo == Init /\ ~w3InvocationConfig /\ ~ipfsGatewayHost

SpecTwo == InitTwo /\ [][NextTwo]_vars

\* The root lifecycle on its own: initRoot, commit and resolveRoot calls of
\* one process, a commit possibly landing between the awaits of a
\* resolveRoot.
NextRoot ==
  \/ InitRoot
  \/ CommitKnownRoot
  \/ ResolveRootCall
  \/ ResolveChecksum
  \/ ResolveLowercase
  \/ ResolveEmpty

SpecRoot == Init /\ [][NextRoot]_vars

(***************************************************************************)
(* putInnerPath on its own: the function applied once to a node, a         *)
(* relative path and a value that is present                               *)
(***************************************************************************)
EmptyMap == Obj(<<>>)
\* the nodes edited: maps nested inline, with a scalar beside them, and {}
NestedAB == Field2(<<"a">>, Field1(<<"b">>, Field1(<<"a">>, Scalar("x"))),
                   <<"b">>, Scalar("y"))
EditNodes == {InlineAA, NestedAB, EmptyMap}
\* the relative paths, with leading separator, and the root path "/"
EditPaths == Paths \cup {<<"/">>}
\* `data` when it is not null
EditDatas == Datas \ {Null}

InitEdit ==
  /\ ipfs = InitBlocks
  /\ ceramic = [d \in Owners \X ParcelIds |-> NoContent]
  /\ w3InvocationConfig = FALSE
  /\ ipfsGatewayHost = FALSE
  /\ pending = {}
  /\ gpc = "idle"
  /\ getArgs = [root |-> None, path |-> <<>>, schema |-> NoSchema]
  /\ got = None
  /\ uploaded = <<>>
  /\ commits = 0
  /\ committed = [d \in Owners \X ParcelIds |-> None]
  /\ updates = [d \in Owners \X ParcelIds |-> 0]
  /\ rpc = "idle"
  /\ rrArgs = [ownerDID |-> "", parcelId |-> 0]
  /\ doc = NoContent
  /\ resolved = None
  /\ rrSince = updates
  /\ others = <<>>
  /\ pc = "edit"
  /\ call = [root |-> None, path |-> <<>>, data |-> None, opts |-> NoOpts]
  /\ level = 0
  /\ root = None /\ opts = NoOpts
  /\ value \in EditNodes /\ path \in EditPaths /\ data \in EditDatas
  /\ newData = None /\ lastPathSegment = <<>> /\ parentPath = <<>>
  /\ cid = None /\ remainderPath = <<>> /\ newValue = None
  /\ innerBlocks = <<>> /\ newCid = None
  /\ result = None /\ thrown = ""
  /\ ipfs0 = {} /\ ceramic0 = ceramic /\ puts = <<>>

\* newValue = putInnerPath(value, path, data)
EditNode ==
  /\ pc = "edit"
  /\ newValue' = putInnerPath(value, path, data)
  /\ pc' = "edited"
  /\ UNCHANGED <<store, pointer, config, getter, resolver, others, args,
                 outcome, history, newData, lastPathSegment, parentPath, cid,
                 remainderPath, value, innerBlocks, newCid>>

NextEdit == EditNode

SpecEdit == InitEdit /\ [][NextEdit]_vars

(***************************************************************************)
(* Definitions used by the properties                                      *)
(***************************************************************************)
\* the segments of the path the caller passed, and of its parent
TargetSegs == FilterBoolean(Split(call.path))
ParentSegs == SubSeq(TargetSegs, 1, Len(TargetSegs) - 1)

\* the value stored at a position of the tree under a block, links crossed
\* on the way but the value at the position itself not dereferenced
RECURSIVE RawAt(_, _, _)
RawAt(blocks, node, parts) ==
  IF parts = <<>> THEN node
  ELSE IF ~HasOwn(node, Head(parts)) THEN None
  ELSE LET x == GetField(node, Head(parts)) IN
       IF Len(parts) = 1 THEN x
       ELSE IF x.t = "link"
       THEN IF x.v \in blocks THEN RawAt(blocks, x.v, Tail(parts)) ELSE None
       ELSE RawAt(blocks, x, Tail(parts))

\* the CID of the block at a position of the tree under rootCid, or None
\* when the position holds no block
CidAt(blocks, rootCid, pos) ==
  IF pos = <<>> THEN rootCid
  ELSE IF rootCid.v \notin blocks THEN None
  ELSE LET x == RawAt(blocks, rootCid.v, pos) IN
       IF x.t = "link" THEN x ELSE None

Positions == {<<>>} \cup SegSeqs

IsPrefix(q, segs) == Len(q) <= Len(segs) /\ SubSeq(segs, 1, Len(q)) = q

\* the links found anywhere inside a value
RECURSIVE LinksIn(_)
LinksIn(x) ==
  CASE x.t = "obj" -> UNION {LinksIn(x.v[k]) : k \in DOMAIN x.v}
    [] x.t = "arr" -> UNION {LinksIn(x.v[i]) : i \in 1..Len(x.v)}
    [] x.t = "link" -> {x}
    [] OTHER -> {}

\* the blocks of the store reachable from a CID
RECURSIVE ReachableFrom(_, _, _)
ReachableFrom(blocks, frontier, seen) ==
  IF frontier = {} THEN seen
  ELSE LET next == UNION {LinksIn(c.v) : c \in {f \in frontier : f.v \in blocks}}
       IN  ReachableFrom(blocks, next \ (seen \cup frontier), seen \cup frontier)

\* a sequence without its element at index i (from 0)
RemoveAt(seq, i) ==
  [j \in 1..(Len(seq) - 1) |-> IF j <= i THEN seq[j] ELSE seq[j + 1]]

\* the container the caller's path addresses, in the tree the call started
\* from: the value at the parent path
OldContainer == DagGetPath(ipfs0, call.root, PathOf(ParentSegs))

\* the value the caller's path holds in the tree the call started from
OldTarget == RawAt(ipfs0, call.root.v, TargetSegs)

\* no option of the caller's call is set
PlainCall == call.opts = NoOpts

\* the caller has read back, with no schema, the path it wrote under the
\* root putPath returned
ReadBack ==
  /\ pc = "done" /\ gpc = "done"
  /\ getArgs = [root |-> result, path |-> call.path, schema |-> NoSchema]

(***************************************************************************)
(* C1  Path round-trip: for an existing root, a well-formed path of any    *)
(* depth and a non-null value X, putPath(root, path, X) returns a newRoot  *)
(* such that get(newRoot, path) with no schema returns X.                  *)
(* Stated for calls with no option set whose target's parent is an object  *)
(* of the tree.                                                            *)
(***************************************************************************)
C1_PathRoundTrip ==
  (ReadBack /\ PlainCall /\ ~IsNullish(call.data) /\ OldContainer.t = "obj")
    => got = call.data

\* the positions of the tree whose block differs between the tree the call
\* started from and the tree under the returned root
ChangedPositions ==
  {pos \in Positions :
     /\ CidAt(ipfs0, call.root, pos) # CidAt(ipfs, result, pos)
     /\ \/ CidAt(ipfs0, call.root, pos) # None
        \/ CidAt(ipfs, result, pos) # None}

\* the positions of the block containing the target and of its ancestors
PathPositions ==
  {pos \in Positions :
     /\ IsPrefix(pos, ParentSegs)
     /\ CidAt(ipfs0, call.root, pos) # None}

\* every link reachable from the returned root points to a block held
NoDanglingLink ==
  \A c \in ReachableFrom(ipfs, {result}, {}) : c.v \in ipfs

(***************************************************************************)
(* C2  Bottom-up propagation with frame: after putPath(root, path, X)      *)
(* returns newRoot, the blocks whose CID differs between the two trees are *)
(* exactly the block containing the target and its ancestors up to the     *)
(* root; every other link keeps its CID; every link reachable from newRoot *)
(* points to a block in the store.                                         *)
(* Stated for calls with no option set that replace a scalar held by an    *)
(* object of the tree with a different scalar.                             *)
(***************************************************************************)
C2_BottomUpFrame ==
  ( /\ pc = "done" /\ PlainCall
    /\ call.data = Scalar("z")
    /\ OldContainer.t = "obj"
    /\ OldTarget.t = "scalar" )
  => /\ ChangedPositions = PathPositions
     /\ NoDanglingLink

(***************************************************************************)
(* C3  Atomicity with respect to the root pointer: no step of putPath,     *)
(* deletePath or get writes the pointer service, and the only change such  *)
(* a step makes to the block store is to add blocks; when a chain has      *)
(* failed, at whatever step and level, every binding is as it was when the *)
(* call was made and every block held then is still held.                  *)
(***************************************************************************)
C3_PointerAtomicity ==
  /\ [](pc = "failed" => (ceramic = ceramic0 /\ ipfs0 \subseteq ipfs))
  /\ [][(chain' # chain \/ getter' # getter)
          => (ceramic' = ceramic /\ ipfs \subseteq ipfs')]_vars

\* a chain failed at its second level, after it had written a block
C3_Witness ==
  /\ pc = "failed" /\ level = 2 /\ Len(puts) > 0

\* the index the last segment of the caller's path denotes
TargetIndex == IndexOf(TargetSegs[Len(TargetSegs)])

\* the first level has edited and validated its node and is about to store it
EditedAtFirstLevel == pc = "put" /\ level = 1

\* the addressed container inside the edited node
EditedContainer == RawAt(ipfs, newValue, FilterBoolean(Split(remainderPath)))

(***************************************************************************)
(* C4  Deletion compaction: deletePath on index i of a sequence leaves     *)
(* the sequence with that element removed, no hole, and the others in      *)
(* their order ([a,b,c] minus index 1 is [a,c]), when the sequence is the  *)
(* resolved block and when it is stored inline in an enclosing object.     *)
(* Stated for sequences whose entries are all truthy.                      *)
(***************************************************************************)
C4_DeletionCompaction ==
  ( /\ EditedAtFirstLevel /\ PlainCall /\ call.data = Null
    /\ OldContainer.t = "arr"
    /\ TargetIndex >= 0 /\ TargetIndex < Len(OldContainer.v)
    /\ \A i \in 1..Len(OldContainer.v) : Truthy(OldContainer.v[i]) )
  => EditedContainer = Arr(RemoveAt(OldContainer.v, TargetIndex))

(***************************************************************************)
(* C5  Array compaction removes only the hole a deletion leaves: when the  *)
(* edited node is a sequence, every entry that was present and is not the  *)
(* deleted target, also an entry 0, false or "", and also a newly set      *)
(* entry with such a value, is still present afterwards, in the same       *)
(* order.                                                                  *)
(***************************************************************************)
C5_CompactionKeepsEntries ==
  ( /\ EditedAtFirstLevel /\ PlainCall
    /\ remainderPath = <<>> /\ cid.v.t = "arr"
    /\ TargetIndex >= 0 /\ TargetIndex < Len(cid.v.v) )
  => newValue = Arr(IF IsNullish(call.data)
                    THEN RemoveAt(cid.v.v, TargetIndex)
                    ELSE [cid.v.v EXCEPT ![TargetIndex + 1] = call.data])

\* the dag.put calls of the chain that stored a leaf for a link, and those
\* that stored an edited node
LeafPuts == {i \in 1..Len(puts) : puts[i].kind = "leaf"}
NodePuts == {i \in 1..Len(puts) : puts[i].kind = "node"}

\* the blocks the chain has added to the store
AddedBlocks == ipfs \ ipfs0

(***************************************************************************)
(* C6  Deletion is never treated as a validation failure: deletePath with  *)
(* a parentSchema neither raises the schema-mismatch error nor takes the   *)
(* indirect-linking fallback (no block for the null value is stored, no    *)
(* link is written at the deleted field), even when the parent without     *)
(* the field does not conform.                                             *)
(***************************************************************************)
C6_DeletionNotValidated ==
  ( /\ pc # "idle" /\ call.data = Null
    /\ call.opts.parentSchema # NoSchema /\ call.opts.leafSchema = NoSchema )
  => /\ thrown # "parentSchema"
     /\ pc # "putLeaf"
     /\ LeafPuts = {}

(***************************************************************************)
(* C7  Schema fallback: when parentSchema rejects the edited parent with   *)
(* the leaf inline and accepts it with a link, putPath stores the leaf as  *)
(* its own block, persists a parent whose field at the last segment is the *)
(* CID of that block, records the leaf as an inner block, and              *)
(* get(newRoot, path) returns the original leaf value.                     *)
(***************************************************************************)
C7_SchemaFallback ==
  /\ ( /\ EditedAtFirstLevel /\ call.opts.parentSchema # NoSchema
       /\ ~IsNullish(call.data) /\ LeafPuts # {} )
     => /\ call.data \in ipfs
        /\ innerBlocks = <<call.data>>
        /\ RawAt(ipfs, EditedContainer, <<lastPathSegment>>) = Link(call.data)
  /\ ( /\ ReadBack /\ call.opts.parentSchema # NoSchema
       /\ ~IsNullish(call.data) /\ LeafPuts # {} )
     => /\ puts[2] = [level |-> 1, kind |-> "node", block |-> puts[2].block]
        /\ Conforms(call.opts.parentSchema, puts[2].block)
        /\ got = call.data

(***************************************************************************)
(* C8  Schema mismatch aborts the chain: when the edited parent fails      *)
(* parentSchema with the value inline and with the link, putPath raises    *)
(* the schema-mismatch error; the edited parent is never written to the    *)
(* block store, no upload is attempted, no recursive level runs, no root   *)
(* is returned, and the only block possibly added is the leaf block.       *)
(***************************************************************************)
C8_SchemaMismatchAborts ==
  /\ thrown = "parentSchema"
       => /\ pc = "failed" /\ level = 1 /\ result = None
          /\ NodePuts = {} /\ uploaded = <<>>
          /\ AddedBlocks \subseteq {newData}
  /\ \A i \in NodePuts :
       (puts[i].level = 1 /\ call.opts.parentSchema # NoSchema)
         => Conforms(call.opts.parentSchema, puts[i].block)

\* the error was raised after the leaf block had been stored
C8_Witness ==
  /\ thrown = "parentSchema" /\ pc = "failed"
  /\ ~IsNullish(call.data) /\ AddedBlocks = {call.data}

(***************************************************************************)
(* C9  Leaf-schema failure persists nothing: when leafSchema is configured *)
(* and the transform of the value is undefined, putPath raises an error    *)
(* before any block-store read or write, any upload and any recursion;     *)
(* the block store and the root pointer are as before the call.            *)
(***************************************************************************)
C9_LeafSchemaFailure ==
  ( /\ pc # "idle" /\ call.opts.leafSchema # NoSchema
    /\ toRepresentation(call.opts.leafSchema, call.data) = Undefined )
  => /\ pc = "failed" /\ thrown = "leafSchema" /\ result = None
     /\ level = 1 /\ cid = None /\ value = None
     /\ puts = <<>> /\ uploaded = <<>>
     /\ ipfs = ipfs0 /\ ceramic = ceramic0

\* a call with a leafSchema the value does not match has been made
C9_Witness ==
  /\ thrown = "leafSchema"
  /\ call.opts.leafSchema = "ScalarMap" /\ call.data = Scalar("z")

(***************************************************************************)
(* C10  Missing upload configuration: with pin requested and no upload     *)
(* context configured, putPath raises a configuration error at the first   *)
(* level without encoding or uploading an archive; no ancestor level is    *)
(* rewritten and no root is returned; the edited node's block written just *)
(* before the check remains in the store.                                  *)
(***************************************************************************)
C10_MissingUploadConfig ==
  ( /\ pc # "idle" /\ call.opts.pin /\ ~w3InvocationConfig )
  => /\ level = 1 /\ pc \notin {"upload", "done"}
     /\ uploaded = <<>> /\ result = None
     /\ NodePuts # {} => /\ pc = "failed" /\ thrown = "config"
                         /\ Len(puts) \in NodePuts
                         /\ puts[Len(puts)].block = newValue
                         /\ newCid = Link(newValue) /\ newValue \in ipfs

\* the configuration error was raised after the edited node was stored
C10_Witness ==
  /\ thrown = "config" /\ pc = "failed" /\ NodePuts # {}

(***************************************************************************)
(* C11  Upload failure is surfaced and stops propagation: with pin         *)
(* requested, at whatever recursion level the archive encoding or upload   *)
(* fails, the error reaches the caller of the outermost putPath, no higher *)
(* ancestor level is rewritten, no root is returned, and every block the   *)
(* chain has written is still in the block store.                          *)
(***************************************************************************)
C11_UploadFailureSurfaced ==
  thrown = "upload"
    => /\ pc = "failed" /\ result = None
       /\ call.opts.pin /\ opts.pin
       /\ Len(puts) > 0
       /\ puts[Len(puts)] = [level |-> level, kind |-> "node", block |-> newValue]
       /\ \A i \in 1..Len(puts) : puts[i].level <= level /\ puts[i].block \in ipfs
       /\ ipfs0 \subseteq ipfs
       /\ Len(uploaded) = level - 1

\* the upload failed at the second level, after the first level's archive
\* had been accepted
C11_Witness ==
  /\ thrown = "upload" /\ pc = "failed" /\ level = 2 /\ Len(uploaded) = 1

\* get has returned a value that only the gateway could supply
GatewayServed ==
  /\ gpc = "done" /\ getArgs.schema = NoSchema
  /\ getArgs.root = Link(RootRemote)
  /\ got \notin {Undefined, None}

(***************************************************************************)
(* C12  Gateway fallback repopulates the cache before get completes: when  *)
(* local resolution fails and the gateway returns valid raw bytes, get     *)
(* returns the decoded value and, at the moment get returns, the write of  *)
(* that block into the local block store has completed, so that a local    *)
(* get of the same root and path that follows at once succeeds.            *)
(***************************************************************************)
C12_GatewayRepopulates ==
  GatewayServed
    => /\ got = DagGetPath(GatewayBlocks, getArgs.root, getArgs.path)
       /\ got \in ipfs
       /\ pending = {}
       /\ ~IsErr(DagGetPath(ipfs, getArgs.root, getArgs.path))

\* the local block store cannot resolve the path get was asked for
LocalFails == IsErr(DagGetPath(ipfs, getArgs.root, getArgs.path))

\* the gateway cannot resolve it either
GatewayFails == IsErr(DagGetPath(GatewayBlocks, getArgs.root, getArgs.path))

(***************************************************************************)
(* C13  Retrieval degradation: get contacts the gateway only after local   *)
(* resolution has failed; when local resolution fails and the gateway is   *)
(* not configured, or its fetch or the decoding fails, get with no schema  *)
(* returns undefined, and after a failed fetch or decoding nothing is      *)
(* written to the local block store.                                       *)
(***************************************************************************)
C13_RetrievalDegradation ==
  /\ gpc = "gateway" => (ipfsGatewayHost /\ LocalFails /\ got = None)
  /\ (gpc = "done" /\ getArgs.schema = NoSchema /\ LocalFails)
       => /\ (~ipfsGatewayHost \/ GatewayFails) => got = Undefined
          /\ got = Undefined => pending = {}
          /\ got \in {Undefined, DagGetPath(GatewayBlocks, getArgs.root, getArgs.path)}

\* the gateway is configured and holds the block, but the fetch or the
\* decoding failed
C13_Witness ==
  /\ gpc = "done" /\ getArgs.schema = NoSchema /\ ipfsGatewayHost
  /\ getArgs.root = Link(RootRemote) /\ ~GatewayFails
  /\ got = Undefined /\ pending = {} /\ ipfs = InitBlocks

\* resolveRoot has returned and no commit was made since it was called
Resolved0 == rpc = "done" /\ rrSince = updates

\* the documents resolveRoot looks at: the owner's as given, the lower-cased
OwnDoc == <<rrArgs.ownerDID, rrArgs.parcelId>>
LowerDoc == <<"0xabc", rrArgs.parcelId>>

(***************************************************************************)
(* C14  Root fallback chain: resolveRoot(owner, id) returns the root bound *)
(* to the owner as given when that document has content, otherwise the     *)
(* root bound to the lower-cased owner when that document has content,     *)
(* otherwise the CID of a freshly stored empty node; no step of            *)
(* resolveRoot changes a binding of the pointer service.                   *)
(***************************************************************************)
C14_RootFallbackChain ==
  /\ [](Resolved0 =>
          /\ resolved = IF committed[OwnDoc] # None THEN committed[OwnDoc]
                        ELSE IF committed[LowerDoc] # None THEN committed[LowerDoc]
                        ELSE Link(EmptyNode)
          /\ resolved = Link(EmptyNode) => EmptyNode \in ipfs)
  /\ [][resolver' # resolver => (ceramic' = ceramic /\ committed' = committed)]_vars

\* the checksum-cased owner has no content, the lower-cased one has: the
\* call for "0xABC" returned the root committed for "0xabc"
C14_Witness ==
  /\ Resolved0 /\ rrArgs.ownerDID = "0xABC"
  /\ committed[OwnDoc] = None /\ committed[LowerDoc] # None
  /\ resolved = committed[LowerDoc]

(***************************************************************************)
(* C15  Commit is read-your-writes: after commit(root, owner, id) has      *)
(* completed (also the commit made by initRoot, whose root is the stored   *)
(* empty node), a resolveRoot(owner, id) returns root, whatever the        *)
(* lower-cased owner's document holds, as long as no other commit for the  *)
(* same (owner, id) is made; a committed root that came from initRoot or   *)
(* putPath is a block the store contains.                                  *)
(***************************************************************************)
C15_CommitReadYourWrites ==
  /\ ( /\ rpc = "done"
       /\ committed[OwnDoc] # None
       /\ rrSince[OwnDoc] = updates[OwnDoc] )
     => resolved = committed[OwnDoc]
  /\ \A d \in DOMAIN committed :
       committed[d] # None => (committed[d].v \in ipfs /\ ceramic[d] = DagJson(committed[d]))

\* resolveRoot for "0xABC" returned the root committed for it while the
\* lower-cased owner's document holds another root
C15_Witness ==
  /\ rpc = "done" /\ rrArgs.ownerDID = "0xABC"
  /\ committed[OwnDoc] # None /\ rrSince[OwnDoc] = updates[OwnDoc]
  /\ committed[LowerDoc] \notin {None, committed[OwnDoc]}
  /\ resolved = committed[OwnDoc]

(***************************************************************************)
(* C16  Determinism of the returned root: the CID putPath returns depends  *)
(* only on the tree under root, path, value and opts.  Two chains with the *)
(* same call from the same root return the same root, also when the steps  *)
(* of another chain on that root, for the same or another path, are        *)
(* interleaved with them; a returned root does not contain the mutation of *)
(* another chain, so once both are committed the pointer holds the root of *)
(* the commit that ran last, without the other chain's mutation.           *)
(***************************************************************************)
C16_DeterministicRoot ==
  /\ \A c1, c2 \in Chains :
       ( /\ c1.pc \in {"done", "failed"} /\ c2.pc \in {"done", "failed"}
         /\ c1.call = c2.call )
       => (c1.pc = c2.pc /\ c1.result = c2.result /\ c1.thrown = c2.thrown)
  /\ \A c1, c2 \in Chains :
       (c1.pc = "done" /\ c2.pc # "idle" /\ c1.call.path # c2.call.path)
       => DagGetPath(ipfs, c1.result, c2.call.path)
            = DagGetPath(InitBlocks, TwoRoot, c2.call.path)
  /\ \A d \in DOMAIN committed :
       committed[d] # None
       => /\ ceramic[d] = DagJson(committed[d])
          /\ \E c \in Chains : c.pc = "done" /\ c.result = committed[d]

\* A chain ran alone; then a chain for another path was started and, while
\* it waited after its first dag.put, a chain with the call of the first
\* one was started; all three have returned and two roots were committed.
C16_Witness ==
  /\ commits = 2
  /\ \E c1, c2, c3 \in Chains :
       /\ c1.pc = "done" /\ c2.pc = "done" /\ c3.pc = "done"
       /\ c1.ipfs0 = InitBlocks
       /\ c2.call = c1.call /\ c2.ipfs0 # c1.ipfs0
       /\ c3.call.path # c1.call.path
       /\ c3.puts[1].block \in c2.ipfs0
       /\ c3.puts[2].block \notin c2.ipfs0
       /\ committed[<<"0xabc", 1>>] = c2.result

(***************************************************************************)
(* C17  Termination and write bound: for a well-formed path on the tree    *)
(* under an existing root, a putPath chain with no schema and no pin ends  *)
(* with a returned root; the edited-node blocks it writes are exactly one  *)
(* per block on the path from the block containing the target up to the    *)
(* root, and the number of putPath invocations never exceeds the number of *)
(* path segments.                                                          *)
(* Stated for paths whose parent is an object of the tree.                 *)
(***************************************************************************)
C17_TerminationWriteBound ==
  (pc # "idle" /\ PlainCall /\ OldContainer.t = "obj")
    => /\ pc # "failed"
       /\ level <= Len(TargetSegs)
       /\ LeafPuts = {}
       /\ pc = "done" => Len(puts) = Cardinality(PathPositions)

(***************************************************************************)
(* C18  Path split: for a path "/s1/.../sn" with n >= 1, the parentPath    *)
(* putPath computes is the path without its final segment and lastSegment  *)
(* is sn, also when the name sn occurs as an earlier segment.              *)
(***************************************************************************)
C18_PathSplit ==
  (pc = "resolve" /\ level = 1)
    => /\ lastPathSegment = TargetSegs[Len(TargetSegs)]
       /\ parentPath = PathOf(ParentSegs)

\* the segments of the remainder dag.resolve returned
RemainderSegs == FilterBoolean(Split(remainderPath))

\* the path of the block dag.resolve stopped at: the parent path without
\* the segments of the remainder
AncestorPath ==
  PathOf(SubSeq(ParentSegs, 1, Len(ParentSegs) - Len(RemainderSegs)))

(***************************************************************************)
(* C19  Recursion target after a remainder: when the parent path resolves  *)
(* to a block other than the root with a non-empty remainder, the path     *)
(* handed to the recursive putPath call is exactly the path of that block, *)
(* parentPath with the remainder segments and their separator removed,     *)
(* also when the text of the remainder occurs earlier in parentPath.       *)
(* Stated for the first level of calls whose path was split correctly.     *)
(***************************************************************************)
C19_RecursionTarget ==
  ( /\ EditedAtFirstLevel /\ remainderPath # <<>>
    /\ Len(RemainderSegs) < Len(ParentSegs)
    /\ Replace(call.path, <<"/">> \o lastPathSegment) = PathOf(ParentSegs) )
  => parentPath = AncestorPath

(***************************************************************************)
(* C20  Node editor on a present value: for a node and a relative path     *)
(* with leading separator of any length k >= 1, the edit sets the field    *)
(* addressed by the complete path, descending through every segment in     *)
(* turn, and creates a missing intermediate container instead of failing   *)
(* when a segment of the path does not exist yet; for the root path "/"    *)
(* the edit returns the node unchanged.                                    *)
(***************************************************************************)
EditSegs == FilterBoolean(Split(path))

\* every value the path passes through is a map, or is missing
RECURSIVE EditDescends(_, _)
EditDescends(node, segs) ==
  /\ node.t = "obj"
  /\ \/ Len(segs) = 1
     \/ GetField(node, Head(segs)) = Undefined
     \/ EditDescends(GetField(node, Head(segs)), Tail(segs))

\* the node with the field at the end of segs set, a missing map on the way
\* created
RECURSIVE EditExpected(_, _, _)
EditExpected(node, segs, x) ==
  IF Len(segs) = 1 THEN AssignField(node, Head(segs), x)
  ELSE LET child == GetField(node, Head(segs))
           sub   == IF child = Undefined THEN EmptyMap ELSE child
       IN  AssignField(node, Head(segs), EditExpected(sub, Tail(segs), x))

C20_NodeEditor ==
  pc = "edited"
    => IF path = <<"/">> THEN newValue = value
       ELSE EditDescends(value, EditSegs)
              => newValue = EditExpected(value, EditSegs, data)

====
